---- MODULE Spec2Model ----
(***************************************************************************)
(* Model of the WebSocket subscription router and order-book synchronizer  *)
(* of ccxt's async Exchange base class                                     *)
(* (python/ccxt/async_support/base/exchange.py).                           *)
(*                                                                         *)
(* The asyncio event loop is single threaded: a synchronous function       *)
(* (client, watch, on_error, on_close, a done-callback) is one atomic      *)
(* action, and a coroutine is cut into one action per await.               *)
(*                                                                         *)
(* Client (FastClient), Future, Throttler and OrderBook live outside       *)
(* exchange.py; they are modelled from their contract in spec.md.          *)
(***************************************************************************)
EXTENDS Integers, Sequences, FiniteSets, TLC

\* ------------------------------------------------------------------ bounds
MaxConn == 2        \* Connection objects ever constructed
MaxFut == 2         \* Future objects ever constructed
MaxTasks == 1       \* done-callbacks / send_message tasks in flight
MaxCache == 5       \* deltas buffered in the cache at a time
MaxDeltas == 5      \* deltas the venue pushes in all
FirstNonce == 101   \* nonce of the first delta the venue pushes
MaxReq == 2         \* REST requests (fetch2 calls) made in all
Capacity == 2       \* capacity of the token bucket, in tokens
MaxLevels == 2      \* price levels on one side of a raw order book
MaxPrice == 3       \* prices of the levels: 1..MaxPrice
MaxCalls == 3       \* callers of load_markets at a time
MaxLoads == 3       \* load_markets_helper tasks ever created
MaxSafe == 2        \* invocations of fetch_rest_order_book_safe

\* ------------------------------------------------------------- value sets
None == "None"
Urls == {"u1", "u2", "u3"}
RouterUrls == {"u1"}
Symbols == {"BTC/USDT"}
Symbol == "BTC/USDT"
OrderBookHash == "h1"              \* messageHash of the order-book feed
OrderBookKey == "k1"               \* its subscribe_hash
LobIds == {1, 2}
FetchErrors == {"NotSupported", "RequestTimeout"}    \* BaseError subclasses
Hashes == {"h1", "h2"}
SubHashes == {"k1", None}          \* subscribe_hash of a call; None = absent
SendOutcomes == {"ok", "ConnectionError", "OtherError"}
NoConn == 0
NoFuture == 0

VARIABLES
    clients,          \* self.clients: url -> connection id, NoConn when absent
    conns,            \* every Client object constructed so far, by id
    futures,          \* every Future object constructed so far, by id
    tasks,            \* watch's pending done-callbacks and send_message tasks
    session,          \* self.session: "none" or "open"
    enableRateLimit,  \* self.enableRateLimit
    orderbooks,       \* self.orderbooks: the symbols that have an OrderBook
    book,             \* the stored OrderBook of Symbol
    cache,            \* its cache: nonces of the buffered deltas, oldest first
    nextNonce,        \* nonce of the next delta the venue will push
    hasCacheIndex,    \* the adapter overrides get_cache_index
    lob,              \* the load_order_book invocations, by slot
    ownSession,       \* self.own_session
    close,            \* the invocation of Exchange.close
    queue,            \* the throttle's queue: waiting requests, oldest first
    tokens,           \* the tokens in the bucket
    reqs,             \* the fetch2 invocations, by request id
    arrived,          \* history: the requests in the order they acquired
    released,         \* history: the requests in the order they were released
    raw,              \* the order book as the venue sent it
    parsed,           \* the order book made from it, and by which method
    markets,          \* self.markets is loaded
    marketsLoading,   \* self.markets_loading: a task id, NoLoad for None
    reloadingMarkets, \* self.reloading_markets
    loads,            \* every load_markets_helper task created so far, by id
    calls,            \* the load_markets invocations, by caller
    safe              \* the fetch_rest_order_book_safe invocations, by slot

routerVars == <<clients, conns, futures, tasks, session, enableRateLimit>>
lobVars == <<orderbooks, book, cache, nextNonce, hasCacheIndex, lob>>
closeVars == <<ownSession, close>>
throttleVars == <<queue, tokens, reqs, arrived, released>>
bookVars == <<raw, parsed>>
marketVars == <<markets, marketsLoading, reloadingMarkets, loads, calls>>
helperVars == <<marketVars, safe>>
restVars == <<throttleVars, bookVars, helperVars>>
vars == <<routerVars, lobVars, closeVars, restVars>>

ConnIds == 1..Len(conns)

\* --------------------------------------------------------------- Future
NewFuture == [st |-> "pending", err |-> "none"]

\* Future.reject: a Future is completed once; later completions are dropped.
\* (fault: a later rejection overwrites the outcome)
FutureRejectAgain(fs, f, e) ==
    IF f # NoFuture
    THEN [fs EXCEPT ![f] = [st |-> "rejected", err |-> e]]
    ELSE fs

FutureReject(fs, f, e) ==
    IF f # NoFuture /\ fs[f].st = "pending"
    THEN [fs EXCEPT ![f] = [st |-> "rejected", err |-> e]]
    ELSE fs

FutureResolve(fs, f) ==
    IF f # NoFuture /\ fs[f].st = "pending"
    THEN [fs EXCEPT ![f] = [st |-> "resolved", err |-> "none"]]
    ELSE fs

\* --------------------------------------------------------------- Client
\* sent and outc are history: how often the subscribe message of a key went
\* out on this connection, and whether the key's callback found no message
\* ("nomsg") or its send failed ("failed").
NewClient(url) ==
    [url |-> url, st |-> "new", error |-> FALSE, connected |-> FALSE,
     subs |-> {}, futs |-> [h \in Hashes |-> NoFuture],
     sent |-> [k \in SubHashes |-> 0],
     outc |-> [k \in SubHashes |-> "none"]]

\* client.reject(e, h) / client.resolve(v, h): complete and forget the Future
\* of the hash; a hash with no Future is left alone.
ClientRejectFutures(fs, cn, hs, e) ==
    [f \in DOMAIN fs |->
        IF \E h \in hs : cn.futs[h] = f
        THEN FutureReject(fs, f, e)[f] ELSE fs[f]]

ClientResolveFutures(fs, cn, hs) ==
    [f \in DOMAIN fs |->
        IF \E h \in hs : cn.futs[h] = f
        THEN FutureResolve(fs, f)[f] ELSE fs[f]]

ClientForget(cn, hs) ==
    [cn EXCEPT !.futs = [h \in Hashes |-> IF h \in hs THEN NoFuture ELSE @[h]]]

\* client.connect(): idempotent; only a never-connected client starts to open.
ClientConnect(cn) ==
    IF cn.st = "new" THEN [cn EXCEPT !.st = "connecting"] ELSE cn

\* ------------------------------------------------------- Exchange.client
\* (fault: the lookup of the URL always misses)
ClientExistsNever(url) == FALSE

ClientExists(url) == clients[url] # NoConn

ClientConns(url) ==
    IF ClientExists(url) THEN conns ELSE Append(conns, NewClient(url))

ClientRegistry(url) ==
    IF ClientExists(url) THEN clients
    ELSE [clients EXCEPT ![url] = Len(conns) + 1]

ClientCall(url) ==
    /\ ClientExists(url) \/ Len(conns) < MaxConn
    /\ clients' = ClientRegistry(url)
    /\ conns' = ClientConns(url)
    /\ UNCHANGED <<futures, tasks, session, enableRateLimit, lobVars, closeVars, restVars>>

\* --------------------------------------------------------- Exchange.open
\* `if self.own_session and self.session is None:` create the session.
Open(s) == IF ownSession /\ s = "none" THEN "open" ELSE s

\* -------------------------------------------------------- Exchange.watch
\* (fault: the key is never seen as subscribed)
SubscribedNever(cn, sk) == FALSE

Subscribed(cn, sk) == sk \in cn.subs

\* client.future(h): the pending Future of the hash, or a new one.
FutureAlive(cn, h) ==
    /\ cn.futs[h] # NoFuture
    /\ futures[cn.futs[h]].st = "pending"

\* `if subscribe_hash is None and message_hash in client.futures`
\* (fault: the early return is never taken)
WatchEarlyNever(cn, h, sk) == FALSE

WatchEarly(cn, h, sk) == sk = None /\ cn.futs[h] # NoFuture

\* The connection watch works on: `client = self.client(url)`.
WatchClient(url) == ClientConns(url)[ClientRegistry(url)[url]]

\* `future = client.future(message_hash)` makes a new Future.
WatchFresh(url, h, sk) ==
    ~WatchEarly(WatchClient(url), h, sk) /\ ~FutureAlive(WatchClient(url), h)

\* The callback is scheduled: `if not subscribed`.
WatchSchedules(url, h, sk) ==
    ~WatchEarly(WatchClient(url), h, sk) /\ ~Subscribed(WatchClient(url), sk)

\* The Future watch returns.
WatchReturn(url, h, sk) ==
    IF WatchFresh(url, h, sk) THEN Len(futures) + 1 ELSE WatchClient(url).futs[h]

WatchFutures(url, h, sk) ==
    IF WatchFresh(url, h, sk) THEN Append(futures, NewFuture) ELSE futures

WatchConns(url, h, sk) ==
    LET c == ClientRegistry(url)[url]
        cs == ClientConns(url)
        cn == cs[c]
    IN IF WatchEarly(cn, h, sk) THEN cs
       ELSE [cs EXCEPT ![c] =
                LET a == [cn EXCEPT !.futs[h] = WatchReturn(url, h, sk)]
                    b == IF Subscribed(cn, sk) THEN a
                         ELSE [a EXCEPT !.subs = @ \cup {sk},
                                        !.outc[sk] = "none"]
                IN IF b.connected THEN b ELSE ClientConnect(b)]

WatchTasks(url, h, msg, sk) ==
    IF WatchSchedules(url, h, sk)
    THEN Append(tasks, [conn |-> ClientRegistry(url)[url], key |-> sk,
                        fut |-> WatchReturn(url, h, sk),
                        msg |-> msg, phase |-> "cb"])
    ELSE tasks

WatchSession(url, h, sk) ==
    IF WatchEarly(WatchClient(url), h, sk) THEN session ELSE Open(session)

Watch(url, h, msg, sk) ==
    /\ ClientExists(url) \/ Len(conns) < MaxConn
    /\ WatchFresh(url, h, sk) => Len(futures) < MaxFut
    /\ WatchSchedules(url, h, sk) => Len(tasks) < MaxTasks
    /\ clients' = ClientRegistry(url)
    /\ conns' = WatchConns(url, h, sk)
    /\ futures' = WatchFutures(url, h, sk)
    /\ tasks' = WatchTasks(url, h, msg, sk)
    /\ session' = WatchSession(url, h, sk)
    /\ UNCHANGED <<enableRateLimit, lobVars, closeVars, restVars>>

\* watch.after (the done-callback of client.connected) and the start of
\* send_message up to its first await.
RemoveAt(s, i) == SubSeq(s, 1, i - 1) \o SubSeq(s, i + 1, Len(s))

\* send_message up to its first await: `if self.enableRateLimit:`
\* (fault: the throttle is skipped)
SendPhaseUnthrottled == "send"

SendPhase == IF enableRateLimit THEN "throttle" ELSE "send"

After(i) ==
    LET t == tasks[i] IN
    /\ t.phase = "cb"
    /\ conns[t.conn].connected
    /\ IF t.msg
       THEN /\ tasks' = [tasks EXCEPT ![i].phase = SendPhase]
            /\ UNCHANGED conns
       ELSE /\ tasks' = RemoveAt(tasks, i)
            /\ conns' = [conns EXCEPT ![t.conn].outc[t.key] = "nomsg"]
    /\ UNCHANGED <<clients, futures, session, enableRateLimit, lobVars, closeVars, restVars>>

\* send_message: `await client.throttle(cost)` is granted.
ThrottleGranted(i) ==
    /\ tasks[i].phase = "throttle"
    /\ tasks' = [tasks EXCEPT ![i].phase = "send"]
    /\ UNCHANGED <<clients, conns, futures, session, enableRateLimit, lobVars, closeVars, restVars>>

\* send_message: which failures of client.send the except clause handles.
SendHandled(outcome) == outcome = "ConnectionError"

\* send_message: `await client.send(message)` completes with `outcome`.
SendMessage(i, outcome) ==
    LET t == tasks[i]
        cn == conns[t.conn]
    IN
    /\ t.phase = "send"
    /\ outcome = "ok" => cn.st = "open"
    /\ tasks' = RemoveAt(tasks, i)
    /\ IF outcome = "ok"
       THEN /\ conns' = [conns EXCEPT ![t.conn].sent[t.key] = @ + 1]
            /\ UNCHANGED futures
       ELSE IF SendHandled(outcome) /\ t.key \in cn.subs
       THEN /\ conns' = [conns EXCEPT ![t.conn].subs = @ \ {t.key},
                                      ![t.conn].outc[t.key] = "failed"]
            /\ futures' = FutureReject(futures, t.fut, outcome)
       ELSE /\ conns' = [conns EXCEPT ![t.conn].outc[t.key] = "failed"]
            /\ UNCHANGED futures
    /\ UNCHANGED <<clients, session, enableRateLimit, lobVars, closeVars, restVars>>

\* ------------------------------------------- Exchange.on_error / on_close
\* (fault: on_error leaves the registry alone)
OnErrorKeep(reg, cs, c) == reg

OnError(reg, cs, c) ==
    LET url == cs[c].url IN
    IF reg[url] # NoConn /\ cs[reg[url]].error
    THEN [reg EXCEPT ![url] = NoConn] ELSE reg

OnClose(reg, cs, c) ==
    LET url == cs[c].url IN
    IF cs[c].error THEN reg
    ELSE IF reg[url] # NoConn THEN [reg EXCEPT ![url] = NoConn] ELSE reg

\* ------------------------------------------------- connection life cycle
\* Client.open succeeded: client.connected is resolved.
ConnOpened(c) ==
    /\ conns[c].st = "connecting"
    /\ conns' = [conns EXCEPT ![c].st = "open", ![c].connected = TRUE]
    /\ UNCHANGED <<clients, futures, tasks, session, enableRateLimit, lobVars, closeVars, restVars>>

\* Client.on_error: a connect attempt or an open transport failed.
ConnError(c) ==
    LET cs == [conns EXCEPT ![c].error = TRUE] IN
    /\ conns[c].st \in {"connecting", "open"}
    /\ futures' = ClientRejectFutures(futures, conns[c], Hashes, "NetworkError")
    /\ clients' = OnError(clients, cs, c)
    /\ conns' = [cs EXCEPT ![c] = [ClientForget(cs[c], Hashes) EXCEPT
                    !.st = IF conns[c].st = "open" THEN "closing" ELSE "closed"]]
    /\ UNCHANGED <<tasks, session, enableRateLimit, lobVars, closeVars, restVars>>

\* Client.on_close: the transport closed (by the server, or after an error).
ConnClose(c) ==
    /\ conns[c].st \in {"open", "closing"}
    /\ futures' = IF conns[c].error THEN futures
                  ELSE ClientRejectFutures(futures, conns[c], Hashes, "NetworkError")
    /\ clients' = OnClose(clients, conns, c)
    /\ conns' = [conns EXCEPT ![c] =
                    [(IF conns[c].error THEN conns[c]
                      ELSE ClientForget(conns[c], Hashes)) EXCEPT !.st = "closed"]]
    /\ UNCHANGED <<tasks, session, enableRateLimit, lobVars, closeVars, restVars>>

\* handle_message of an adapter: a message for hash h arrived, client.resolve.
Resolve(c, h) ==
    /\ conns[c].st = "open"
    /\ conns[c].futs[h] # NoFuture
    /\ futures' = ClientResolveFutures(futures, conns[c], {h})
    /\ conns' = [conns EXCEPT ![c] = ClientForget(conns[c], {h})]
    /\ UNCHANGED <<clients, tasks, session, enableRateLimit, lobVars, closeVars, restVars>>

\* ------------------------------------------------------------ OrderBook
\* An OrderBook is abstracted to the snapshot it was last reset to (base),
\* the deltas applied since, in order, and its nonce (0 = none).
NewOrderBook == [nonce |-> 0, base |-> 0, applied |-> <<>>]

\* OrderBook.reset(snapshot)
BookReset(n) == [nonce |-> n, base |-> n, applied |-> <<>>]

\* handle_delta of an adapter: apply one delta.
HandleDelta(b, d) == [b EXCEPT !.nonce = d, !.applied = Append(@, d)]

RECURSIVE HandleDeltas(_, _)
HandleDeltas(b, deltas) ==
    IF deltas = <<>> THEN b
    ELSE HandleDeltas(HandleDelta(b, Head(deltas)), Tail(deltas))

\* get_cache_index of the base class, and of an adapter: the 0-based index
\* of the first cached delta the snapshot does not hold yet, -1 if none.
GetCacheIndexBase(n, deltas) == -1

GetCacheIndexAdapter(n, deltas) ==
    IF deltas = <<>> \/ n < deltas[1] - 1 THEN -1
    ELSE IF \E i \in 1..Len(deltas) : deltas[i] > n
         THEN (CHOOSE i \in 1..Len(deltas) :
                  /\ deltas[i] > n
                  /\ \A j \in 1..(i - 1) : deltas[j] <= n) - 1
         ELSE -1

\* (fault: the join point is always the last cached delta)
GetCacheIndexLast(n, deltas) ==
    IF hasCacheIndex /\ GetCacheIndexAdapter(n, deltas) >= 0
    THEN Len(deltas) - 1 ELSE -1

GetCacheIndex(n, deltas) ==
    IF hasCacheIndex THEN GetCacheIndexAdapter(n, deltas)
    ELSE GetCacheIndexBase(n, deltas)

\* ------------------------------------------- Exchange.load_order_book
maxRetries == 3

\* One invocation: where it is suspended (pc), its locals tries and client,
\* and once it returned how it ended (res).
IdleLob == [pc |-> "idle", tries |-> 0, conn |-> NoConn, res |-> "none"]

DoneLob(res) == [pc |-> "done", tries |-> 0, conn |-> NoConn, res |-> res]

SnapshotNonces == (FirstNonce - 2)..nextNonce

\* `cache[index:]`  (fault: the whole cache is applied)
CacheFromWhole(deltas, index) == deltas

CacheFrom(deltas, index) == SubSeq(deltas, index + 1, Len(deltas))

\* `stored.reset(order_book)` then `self.handle_deltas(stored, cache[index:])`,
\* where handle_delta raises after r deltas (r = all of them: no raise).
\* (fault: the deltas are applied to the book as it is, without the reset)
JoinedBookNoReset(n, deltas, index, r) ==
    HandleDeltas(book, SubSeq(CacheFrom(deltas, index), 1, r))

JoinedBook(n, deltas, index, r) ==
    HandleDeltas(BookReset(n), SubSeq(CacheFrom(deltas, index), 1, r))

\* `del self.clients[client.url]`  (fault: the entry is kept)
ExhaustKeep(reg, url) == reg

Exhaust(reg, url) == [reg EXCEPT ![url] = NoConn]

\* `while tries < maxRetries`  (fault: the loop has no ceiling)
RetryAlways(tries) == TRUE

Retry(tries) == tries < maxRetries

\* The message handler of an adapter spawns load_order_book(client,
\* messageHash, symbol) when a message of the feed arrives: the connection
\* is open and its subscribe went out.  The body runs up to its first await.
\* The exception class of the errors load_order_book raises itself:
\* `ExchangeError(... 'orderbook is not initiated')` and
\* `ExchangeError(... 'nonce is behind cache after ...')`; the other errors
\* of the model are named by their class.
ErrorKind(e) ==
    IF e \in {"ExchangeError: not initiated", "ExchangeError: nonce is behind cache"}
    THEN "ExchangeError" ELSE e

\* `if symbol not in self.orderbooks`  (fault: the entry is taken for granted)
NotInitiatedNever(sym) == FALSE

NotInitiated(sym) == sym \notin orderbooks

LobStart(p, c) ==
    /\ lob[p].pc \in {"idle", "done"}
    /\ conns[c].st = "open"
    /\ conns[c].sent[OrderBookKey] > 0
    /\ IF NotInitiated(Symbol)
       THEN /\ futures' = ClientRejectFutures(futures, conns[c], {OrderBookHash},
                                              "ExchangeError: not initiated")
            /\ conns' = [conns EXCEPT ![c] = ClientForget(@, {OrderBookHash})]
            /\ lob' = [lob EXCEPT ![p] = DoneLob("noBook")]
       ELSE /\ lob' = [lob EXCEPT ![p] = [IdleLob EXCEPT !.pc = "fetch", !.conn = c]]
            /\ UNCHANGED <<futures, conns>>
    /\ UNCHANGED <<clients, tasks, session, enableRateLimit,
                   orderbooks, book, cache, nextNonce, hasCacheIndex, closeVars, restVars>>

\* `cache.clear()` comes after handle_deltas: it runs if that call returned.
\* (fault: the cache is cleared also when handle_delta raised)
CacheAfterJoinCleared(deltas, completed) == <<>>

CacheAfterJoin(deltas, completed) == IF completed THEN <<>> ELSE deltas

\* `await self.fetch_order_book(...)` returned a snapshot of nonce n; the
\* rest of the loop body runs without an await.  handle_delta applies the
\* first r deltas and raises a BaseError on the next one (r = all: no raise).
LobFetched(p, n, r) ==
    LET c == lob[p].conn
        index == GetCacheIndex(n, cache)
        deltas == CacheFrom(cache, index)
        tries == lob[p].tries + 1
    IN
    /\ lob[p].pc = "fetch"
    /\ IF index >= 0
       THEN /\ r \in 0..Len(deltas)
            /\ book' = JoinedBook(n, cache, index, r)
            /\ cache' = CacheAfterJoin(cache, r = Len(deltas))
            /\ IF r = Len(deltas)
               THEN /\ futures' = ClientResolveFutures(futures, conns[c], {OrderBookHash})
                    /\ lob' = [lob EXCEPT ![p] = DoneLob("resolved")]
               ELSE /\ futures' = ClientRejectFutures(futures, conns[c], {OrderBookHash},
                                                      "NotSupported")
                    /\ lob' = [lob EXCEPT ![p].tries = 0]
            /\ conns' = [conns EXCEPT ![c] = ClientForget(@, {OrderBookHash})]
            /\ UNCHANGED clients
       ELSE /\ r = 0
            /\ UNCHANGED <<book, cache>>
            /\ IF Retry(tries)
               THEN /\ lob' = [lob EXCEPT ![p].tries = tries]
                    /\ UNCHANGED <<futures, conns, clients>>
               ELSE /\ futures' = ClientRejectFutures(futures, conns[c], {OrderBookHash},
                                                      "ExchangeError: nonce is behind cache")
                    /\ conns' = [conns EXCEPT ![c] = ClientForget(@, {OrderBookHash})]
                    /\ IF clients[conns[c].url] # NoConn
                       THEN /\ clients' = Exhaust(clients, conns[c].url)
                            /\ lob' = [lob EXCEPT ![p] = DoneLob("exhausted")]
                       ELSE /\ clients' = clients      \* KeyError leaves the coroutine
                            /\ lob' = [lob EXCEPT ![p] = DoneLob("KeyError")]
    /\ UNCHANGED <<tasks, session, enableRateLimit, orderbooks, nextNonce,
                   hasCacheIndex, closeVars, restVars>>

\* `await self.fetch_order_book(...)` raised the BaseError e: reject, then
\* the recursive call starts a new attempt cycle.
LobFetchRaised(p, e) ==
    LET c == lob[p].conn IN
    /\ lob[p].pc = "fetch"
    /\ futures' = ClientRejectFutures(futures, conns[c], {OrderBookHash}, e)
    /\ conns' = [conns EXCEPT ![c] = ClientForget(@, {OrderBookHash})]
    /\ lob' = [lob EXCEPT ![p].tries = 0]
    /\ UNCHANGED <<clients, tasks, session, enableRateLimit,
                   orderbooks, book, cache, nextNonce, hasCacheIndex, closeVars, restVars>>

\* handle_message of an adapter buffers the next delta of the stream.
DeltaArrives ==
    /\ Len(cache) < MaxCache
    /\ nextNonce < FirstNonce + MaxDeltas
    /\ cache' = Append(cache, nextNonce)
    /\ nextNonce' = nextNonce + 1
    /\ UNCHANGED <<routerVars, orderbooks, book, hasCacheIndex, lob, closeVars, restVars>>

\* ------------------------------------------- Exchange.close / ws_close
\* One invocation of close: where it is suspended (pc), the clients whose
\* close() tasks it created (set), those not finished yet (pending) and
\* those whose close() raised (failed).
IdleClose == [pc |-> "idle", set |-> {}, pending |-> {}, failed |-> {}]

Registered == {clients[u] : u \in Urls} \ {NoConn}

\* asyncio.wait(..., return_when=ALL_COMPLETED)
\* (fault: FIRST_COMPLETED)
WaitDoneFirst(pending, set) == pending # set

WaitDone(pending, set) == pending = {}

\* close() after ws_close: `if self.session is not None: ...`, up to the
\* await of session.close() or to the return.
CloseAfterWs(cl) ==
    IF session # "none" /\ ownSession
    THEN /\ close' = [cl EXCEPT !.pc = "session"]
         /\ UNCHANGED session
    ELSE /\ close' = [cl EXCEPT !.pc = "returned"]
         /\ session' = "none"

\* close() is called: ws_close creates a close() task per registered client
\* and awaits them; with no client it goes on to the session at once.
\* ws_close: `if self.clients:`  (fault: it waits whatever the registry holds)
WsCloseWaitsAlways == TRUE

WsCloseWaits == Registered # {}

CloseCall ==
    /\ close.pc \in {"idle", "returned"}
    /\ IF WsCloseWaits
       THEN /\ close' = [pc |-> "wait", set |-> Registered,
                         pending |-> Registered, failed |-> {}]
            /\ UNCHANGED session
       ELSE CloseAfterWs(IdleClose)
    /\ UNCHANGED <<clients, conns, futures, tasks, enableRateLimit, lobVars, ownSession, restVars>>

\* The close() task of client c finishes: the transport is closed, or the
\* call raised.
ClientClosed(c, ok) ==
    /\ close.pc = "wait"
    /\ c \in close.pending
    /\ close' = [close EXCEPT !.pending = @ \ {c},
                              !.failed = IF ok THEN @ ELSE @ \cup {c}]
    /\ conns' = IF ok THEN [conns EXCEPT ![c].st = "closed"] ELSE conns
    /\ UNCHANGED <<clients, futures, tasks, session, enableRateLimit, lobVars, ownSession, restVars>>

\* asyncio.wait returns: ws_close empties the registry and close() goes on.
WsCloseDone ==
    /\ close.pc = "wait"
    /\ WaitDone(close.pending, close.set)
    /\ clients' = [u \in Urls |-> NoConn]
    /\ CloseAfterWs(close)
    /\ UNCHANGED <<conns, futures, tasks, enableRateLimit, lobVars, ownSession, restVars>>

\* `await self.session.close()` returns.
SessionClosed ==
    /\ close.pc = "session"
    /\ session' = "none"
    /\ close' = [close EXCEPT !.pc = "returned"]
    /\ UNCHANGED <<clients, conns, futures, tasks, enableRateLimit, lobVars, ownSession, restVars>>

\* ------------------------------------------------------- Rate Throttle
\* The token bucket: `acquire(cost)` queues the caller in arrival order, the
\* head of the queue is released once the bucket holds its cost, which is
\* then deducted; the bucket refills up to its capacity.
ReqIds == 1..MaxReq
Costs == 1..Capacity

ThrottleAcquire(q, r) == Append(q, r)

ThrottleReady(q, t) == q # <<>> /\ t >= reqs[Head(q)].cost

ThrottleRelease ==
    /\ ThrottleReady(queue, tokens)
    /\ tokens' = tokens - reqs[Head(queue)].cost
    /\ queue' = Tail(queue)
    /\ released' = Append(released, Head(queue))
    /\ reqs' = [reqs EXCEPT ![Head(queue)].pc = "granted"]
    /\ UNCHANGED <<routerVars, lobVars, closeVars, arrived, bookVars, helperVars>>

ThrottleRefill ==
    /\ tokens < Capacity
    /\ tokens' = tokens + 1
    /\ UNCHANGED <<routerVars, lobVars, closeVars, queue, reqs, arrived, released, bookVars, helperVars>>

\* ------------------------------------------------------- Exchange.fetch
\* What the session's request can raise, each with its base classes.
Raised == {"gaierror", "asyncio.TimeoutError", "ServerTimeoutError",
           "ClientConnectorError", "ServerDisconnectedError",
           "ClientResponseError"}

Ancestors(x) ==
    {x} \cup
    CASE x = "gaierror" -> {"OSError"}
      [] x = "asyncio.TimeoutError" -> {}
      [] x = "ServerTimeoutError" ->
            {"ServerConnectionError", "ClientConnectionError", "ClientError",
             "asyncio.TimeoutError"}
      [] x = "ClientConnectorError" ->
            {"ClientOSError", "ClientConnectionError", "ClientError", "OSError"}
      [] x = "ServerDisconnectedError" ->
            {"ServerConnectionError", "ClientConnectionError", "ClientError"}
      [] x = "ClientResponseError" -> {"ClientError"}

\* The except clauses of fetch, in their order.
\* (fault: the connection clause comes before the timeout clause)
ExceptClausesSwapped ==
    << [catch |-> {"gaierror"}, raise |-> "ExchangeNotAvailable"],
       [catch |-> {"ClientConnectionError"}, raise |-> "ExchangeNotAvailable"],
       [catch |-> {"concurrent.futures.TimeoutError", "asyncio.TimeoutError"},
        raise |-> "RequestTimeout"],
       [catch |-> {"ClientError"}, raise |-> "ExchangeError"] >>

ExceptClauses ==
    << [catch |-> {"gaierror"}, raise |-> "ExchangeNotAvailable"],
       [catch |-> {"concurrent.futures.TimeoutError", "asyncio.TimeoutError"},
        raise |-> "RequestTimeout"],
       [catch |-> {"ClientConnectionError"}, raise |-> "ExchangeNotAvailable"],
       [catch |-> {"ClientError"}, raise |-> "ExchangeError"] >>

\* The error fetch ends with when the request raises x: that of the first
\* clause that matches, x itself when none does.
FetchError(x) ==
    LET m == {i \in 1..Len(ExceptClauses) :
                 ExceptClauses[i].catch \cap Ancestors(x) # {}}
    IN IF m = {} THEN x
       ELSE ExceptClauses[CHOOSE i \in m : \A j \in m : i <= j].raise

\* ------------------------------------------------------ Exchange.fetch2
\* One invocation: where it is suspended (pc), its cost, what the request
\* raised (exc) and how fetch ended (res).
IdleReq == [pc |-> "idle", cost |-> 0, exc |-> "none", res |-> "none"]

\* `if self.enableRateLimit:`  (fault: the throttle is never awaited)
Fetch2ThrottlesNever == FALSE

Fetch2Throttles == enableRateLimit

\* fetch2 is called: up to `await self.throttle(cost)`, or without rate
\* limit through sign and fetch (which calls open) up to the request.
Fetch2(r, cost) ==
    /\ reqs[r].pc = "idle"
    /\ IF Fetch2Throttles
       THEN /\ reqs' = [reqs EXCEPT ![r].pc = "throttle", ![r].cost = cost]
            /\ queue' = ThrottleAcquire(queue, r)
            /\ arrived' = Append(arrived, r)
            /\ UNCHANGED session
       ELSE /\ reqs' = [reqs EXCEPT ![r].pc = "http", ![r].cost = cost]
            /\ session' = Open(session)
            /\ UNCHANGED <<queue, arrived>>
    /\ UNCHANGED <<clients, conns, futures, tasks, enableRateLimit, lobVars,
                   closeVars, tokens, released, bookVars, helperVars>>

\* The throttle let the request through: sign, and fetch up to the request.
Fetch2Resume(r) ==
    /\ reqs[r].pc = "granted"
    /\ reqs' = [reqs EXCEPT ![r].pc = "http"]
    /\ session' = Open(session)
    /\ UNCHANGED <<clients, conns, futures, tasks, enableRateLimit, lobVars,
                   closeVars, queue, tokens, arrived, released, bookVars, helperVars>>

\* The request got its response.
FetchReturns(r) ==
    /\ reqs[r].pc = "http"
    /\ reqs' = [reqs EXCEPT ![r].pc = "done", ![r].res = "ok"]
    /\ UNCHANGED <<routerVars, lobVars, closeVars, queue, tokens, arrived,
                   released, bookVars, helperVars>>

\* The request raised x (a timeout when `timeout=self.timeout / 1000` ran out).
FetchRaises(r, x) ==
    /\ reqs[r].pc = "http"
    /\ reqs' = [reqs EXCEPT ![r].pc = "done", ![r].exc = x, ![r].res = FetchError(x)]
    /\ UNCHANGED <<routerVars, lobVars, closeVars, queue, tokens, arrived,
                   released, bookVars, helperVars>>

\* ----------------------------- parse_order_book / fetch_l2_order_book
\* A raw level is <<price, amount, order id>>, a parsed one <<price, amount>>.
Prices == 1..MaxPrice
Amounts == {0, 1}
RawLevels == Prices \X Amounts \X {"id"}

RECURSIVE SeqsUpTo(_, _)
SeqsUpTo(S, n) ==
    IF n = 0 THEN {<<>>}
    ELSE LET shorter == SeqsUpTo(S, n - 1) IN
         shorter \cup {Append(q, x) : q \in {t \in shorter : Len(t) = n - 1}, x \in S}

ParseBidAsk(l) == <<l[1], l[2]>>

ParseBidsAsks(ls) == [i \in 1..Len(ls) |-> ParseBidAsk(ls[i])]

\* sort_by(array, 0, descending): a stable sort by price.
RECURSIVE Insert(_, _, _)
Insert(sorted, l, descending) ==
    IF sorted = <<>> THEN <<l>>
    ELSE IF (IF descending THEN Head(sorted)[1] >= l[1] ELSE Head(sorted)[1] <= l[1])
         THEN <<Head(sorted)>> \o Insert(Tail(sorted), l, descending)
         ELSE <<l>> \o sorted

RECURSIVE SortBy(_, _)
SortBy(ls, descending) ==
    IF ls = <<>> THEN <<>>
    ELSE Insert(SortBy(SubSeq(ls, 1, Len(ls) - 1), descending), ls[Len(ls)], descending)

\* aggregate(bidasks): one level per price, in order of first appearance,
\* with the sum of the positive amounts at that price.
RECURSIVE SumAt(_, _)
SumAt(ls, p) ==
    IF ls = <<>> THEN 0
    ELSE (IF Head(ls)[1] = p /\ Head(ls)[2] > 0 THEN Head(ls)[2] ELSE 0) + SumAt(Tail(ls), p)

RECURSIVE AggregateFrom(_, _)
AggregateFrom(ls, all) ==
    IF ls = <<>> THEN <<>>
    ELSE LET l == ls[Len(ls)]
             before == SubSeq(ls, 1, Len(ls) - 1)
         IN IF l[2] > 0 /\ \A i \in 1..Len(before) : before[i][2] > 0 => before[i][1] # l[1]
            THEN Append(AggregateFrom(before, all), <<l[1], SumAt(all, l[1])>>)
            ELSE AggregateFrom(before, all)

Aggregate(ls) == AggregateFrom(ls, ls)

NoBook == [by |-> "none", bids |-> <<>>, asks |-> <<>>]

\* (fault: the levels are left in the order of the response)
ParseOrderBookUnsorted(ob) ==
    [by |-> "parse_order_book",
     bids |-> ParseBidsAsks(ob.bids),
     asks |-> ParseBidsAsks(ob.asks)]

ParseOrderBook(ob) ==
    [by |-> "parse_order_book",
     bids |-> SortBy(ParseBidsAsks(ob.bids), TRUE),
     asks |-> SortBy(ParseBidsAsks(ob.asks), FALSE)]

\* fetch_l2_order_book on the order book that fetch_order_book returned.
FetchL2OrderBook(ob) ==
    [by |-> "fetch_l2_order_book",
     bids |-> SortBy(Aggregate(ob.bids), TRUE),
     asks |-> SortBy(Aggregate(ob.asks), FALSE)]

ParseOrderBookCall ==
    /\ parsed.by = "none"
    /\ parsed' = ParseOrderBook(raw)
    /\ UNCHANGED <<routerVars, lobVars, closeVars, throttleVars, raw, helperVars>>

\* An adapter's fetch_order_book returns parse_order_book of the response.
FetchL2OrderBookCall ==
    /\ parsed.by = "none"
    /\ parsed' = FetchL2OrderBook(ParseOrderBook(raw))
    /\ UNCHANGED <<routerVars, lobVars, closeVars, throttleVars, raw, helperVars>>

\* --------------------------------------------------- Exchange.load_markets
\* A load_markets_helper task: created by ensure_future, then running up to
\* its fetch (or returning the loaded markets at once), then finished.
NoLoad == 0
CallIds == 1..MaxCalls
NewLoad(reload) == [st |-> "created", reload |-> reload]

\* One invocation of load_markets: where it is suspended (pc), the task it
\* awaits and the result it got.
IdleCall == [pc |-> "idle", task |-> NoLoad, res |-> "none"]

LoadDone(t) == loads[t].st \in {"ok", "failed"}

\* `if (reload and not self.reloading_markets) or not self.markets_loading`
StartsLoad(reload) ==
    (reload /\ ~reloadingMarkets) \/ marketsLoading = NoLoad

\* The task load_markets awaits: the one it just made, or the cached one.
AwaitedLoad(reload) ==
    IF StartsLoad(reload) THEN Len(loads) + 1 ELSE marketsLoading

\* `except Exception: ... self.markets_loading = None`
\* (fault: the failed task stays cached)
LoadingAfterKept(ml, ok) == ml

LoadingAfter(ml, ok) == IF ok THEN ml ELSE NoLoad

\* load_markets is called.  Awaiting a task that is finished does not
\* suspend: the call then ends in the same step.
LoadMarkets(k, reload) ==
    LET t == AwaitedLoad(reload)
        ml == IF StartsLoad(reload) THEN t ELSE marketsLoading
    IN
    /\ calls[k].pc \in {"idle", "done"}
    /\ StartsLoad(reload) => Len(loads) < MaxLoads
    /\ loads' = IF StartsLoad(reload) THEN Append(loads, NewLoad(reload)) ELSE loads
    /\ IF ~StartsLoad(reload) /\ LoadDone(t)
       THEN /\ calls' = [calls EXCEPT ![k] = [pc |-> "done", task |-> t,
                                               res |-> loads[t].st]]
            /\ reloadingMarkets' = FALSE
            /\ marketsLoading' = LoadingAfter(ml, loads[t].st = "ok")
       ELSE /\ calls' = [calls EXCEPT ![k] = [pc |-> "await", task |-> t,
                                               res |-> "none"]]
            /\ reloadingMarkets' = (StartsLoad(reload) \/ reloadingMarkets)
            /\ marketsLoading' = ml
    /\ UNCHANGED <<routerVars, lobVars, closeVars, throttleVars, bookVars,
                   markets, safe>>

\* The task starts to run: load_markets_helper up to its first await, or to
\* its return when the markets are loaded and no reload was asked for.
HelperFetches(t) == loads[t].reload \/ ~markets

HelperStarts(t) ==
    /\ loads[t].st = "created"
    /\ loads' = [loads EXCEPT ![t].st = IF HelperFetches(t) THEN "fetching" ELSE "ok"]
    /\ UNCHANGED <<routerVars, lobVars, closeVars, throttleVars, bookVars,
                   markets, marketsLoading, reloadingMarkets, calls, safe>>

\* fetch_markets returned (set_markets) or raised.
HelperEnds(t, ok) ==
    /\ loads[t].st = "fetching"
    /\ loads' = [loads EXCEPT ![t].st = IF ok THEN "ok" ELSE "failed"]
    /\ markets' = (ok \/ markets)
    /\ UNCHANGED <<routerVars, lobVars, closeVars, throttleVars, bookVars,
                   marketsLoading, reloadingMarkets, calls, safe>>

\* `await self.markets_loading` ends for caller k.
LoadMarketsResumes(k) ==
    LET t == calls[k].task IN
    /\ calls[k].pc = "await"
    /\ LoadDone(t)
    /\ calls' = [calls EXCEPT ![k].pc = "done", ![k].res = loads[t].st]
    /\ reloadingMarkets' = FALSE
    /\ marketsLoading' = LoadingAfter(marketsLoading, loads[t].st = "ok")
    /\ UNCHANGED <<routerVars, lobVars, closeVars, throttleVars, bookVars,
                   markets, loads, safe>>

\* --------------------------------- Exchange.fetch_rest_order_book_safe
\* One invocation: where it is suspended (pc), the loop index i, the
\* outcomes of its fetch_order_book calls so far (log) and how it ended.
SafeIds == 1..MaxSafe
IdleSafe == [pc |-> "idle", i |-> 0, log |-> <<>>, res |-> "none"]

\* `if (i + 1) == fetchSnapshotMaxRetries: raise e`
\* (fault: the first failure is raised)
SafeLastAlways(i) == TRUE

SafeLast(i) == i + 1 = maxRetries

\* The call, up to the first `await self.fetch_order_book(...)`.
SafeStart(s) ==
    /\ safe[s].pc = "idle"
    /\ safe' = [safe EXCEPT ![s].pc = "fetch"]
    /\ UNCHANGED <<routerVars, lobVars, closeVars, throttleVars, bookVars, marketVars>>

\* fetch_order_book returned: `return orderBook`.
SafeFetchReturns(s) ==
    /\ safe[s].pc = "fetch"
    /\ safe' = [safe EXCEPT ![s].pc = "done", ![s].res = "ok",
                            ![s].log = Append(@, "ok")]
    /\ UNCHANGED <<routerVars, lobVars, closeVars, throttleVars, bookVars, marketVars>>

\* fetch_order_book raised e: raise it after the last pass of the loop, go
\* on with the next pass otherwise.
SafeFetchRaises(s, e) ==
    /\ safe[s].pc = "fetch"
    /\ safe' = IF SafeLast(safe[s].i)
               THEN [safe EXCEPT ![s].pc = "done", ![s].res = e,
                                 ![s].log = Append(@, e)]
               ELSE [safe EXCEPT ![s].i = @ + 1, ![s].log = Append(@, e)]
    /\ UNCHANGED <<routerVars, lobVars, closeVars, throttleVars, bookVars, marketVars>>

\* ------------------------------------------------------------ the router
NoRaw == [bids |-> <<>>, asks |-> <<>>]

InitBase ==
    /\ clients = [u \in Urls |-> NoConn]
    /\ conns = <<>>
    /\ futures = <<>>
    /\ tasks = <<>>
    /\ ownSession \in BOOLEAN
    /\ session = IF ownSession THEN "none" ELSE "open"
    /\ close = IdleClose
    /\ enableRateLimit \in BOOLEAN
    /\ orderbooks \in SUBSET Symbols
    /\ book = NewOrderBook
    /\ cache = <<>>
    /\ nextNonce = FirstNonce
    /\ hasCacheIndex \in BOOLEAN
    /\ lob = [p \in LobIds |-> IdleLob]
    /\ queue = <<>>
    /\ tokens = Capacity
    /\ reqs = [r \in ReqIds |-> IdleReq]
    /\ arrived = <<>>
    /\ released = <<>>
    /\ parsed = NoBook
    /\ markets = FALSE
    /\ marketsLoading = NoLoad
    /\ reloadingMarkets = FALSE
    /\ loads = <<>>
    /\ calls = [k \in CallIds |-> IdleCall]
    /\ safe = [i \in 1..MaxSafe |-> IdleSafe]

InitAll == InitBase /\ raw = NoRaw

Next ==
    \/ \E u \in RouterUrls : ClientCall(u)
    \/ \E u \in RouterUrls, h \in Hashes, msg \in BOOLEAN, sk \in SubHashes :
          Watch(u, h, msg, sk)
    \/ \E i \in 1..Len(tasks) : After(i)
    \/ \E i \in 1..Len(tasks) : ThrottleGranted(i)
    \/ \E i \in 1..Len(tasks), o \in SendOutcomes : SendMessage(i, o)
    \/ \E c \in ConnIds : ConnOpened(c)
    \/ \E c \in ConnIds : ConnError(c)
    \/ \E c \in ConnIds : ConnClose(c)
    \/ \E c \in ConnIds, h \in Hashes : Resolve(c, h)

\* The router alone: the order-book configuration is fixed.
Init == InitAll /\ orderbooks = Symbols /\ hasCacheIndex /\ ownSession

Spec == Init /\ [][Next]_vars

\* The event loop runs every scheduled callback and task; what the venue
\* and the callers do is up to them.
TaskSteps ==
    \/ \E i \in 1..Len(tasks) : After(i)
    \/ \E i \in 1..Len(tasks) : ThrottleGranted(i)
    \/ \E i \in 1..Len(tasks), o \in SendOutcomes : SendMessage(i, o)

FairSpec == Spec /\ WF_vars(TaskSteps)

\* The synchronizer on top of the order-book subscription of one URL, with
\* the invocations `procs` of load_order_book.
LobNext(procs) ==
    \/ Watch("u1", OrderBookHash, TRUE, OrderBookKey)
    \/ \E i \in 1..Len(tasks) : After(i)
    \/ \E i \in 1..Len(tasks) : SendMessage(i, "ok")
    \/ \E c \in ConnIds : ConnOpened(c)
    \/ \E c \in ConnIds : ConnClose(c)
    \/ \E p \in procs, c \in ConnIds : LobStart(p, c)
    \/ \E p \in procs, n \in SnapshotNonces, r \in 0..MaxCache : LobFetched(p, n, r)
    \/ \E p \in procs, e \in FetchErrors : LobFetchRaised(p, e)
    \/ DeltaArrives

InitLob == InitAll /\ ~enableRateLimit /\ ownSession

NextLob == LobNext({1})

SpecLob == InitLob /\ [][NextLob]_vars

\* Every await of load_order_book completes, with some outcome.
LobAwaits ==
    \/ \E p \in LobIds, n \in SnapshotNonces, r \in 0..MaxCache : LobFetched(p, n, r)
    \/ \E p \in LobIds, e \in FetchErrors : LobFetchRaised(p, e)

FairSpecLob == SpecLob /\ WF_vars(LobAwaits)

\* Two invocations for the same symbol, on one connection that stays up.
NextLob2 ==
    \/ Watch("u1", OrderBookHash, TRUE, OrderBookKey)
    \/ \E i \in 1..Len(tasks) : After(i)
    \/ \E i \in 1..Len(tasks) : SendMessage(i, "ok")
    \/ \E c \in ConnIds : ConnOpened(c)
    \/ \E p \in LobIds, c \in ConnIds : LobStart(p, c)
    \/ \E p \in LobIds, n \in SnapshotNonces, r \in 0..MaxCache : LobFetched(p, n, r)
    \/ \E p \in LobIds, e \in FetchErrors : LobFetchRaised(p, e)
    \/ DeltaArrives

InitLob2 == InitLob /\ orderbooks = Symbols /\ hasCacheIndex

SpecLob2 == InitLob2 /\ [][NextLob2]_vars

\* Shutdown, with callers that go on watching.
NextClose ==
    \/ \E u \in Urls : Watch(u, "h1", TRUE, "k1")
    \/ \E i \in 1..Len(tasks) : After(i)
    \/ \E i \in 1..Len(tasks) : SendMessage(i, "ok")
    \/ \E c \in ConnIds : ConnOpened(c)
    \/ \E c \in ConnIds : ConnClose(c)
    \/ CloseCall
    \/ \E c \in ConnIds, ok \in BOOLEAN : ClientClosed(c, ok)
    \/ WsCloseDone
    \/ SessionClosed

InitClose == InitAll /\ ~enableRateLimit /\ orderbooks = Symbols /\ hasCacheIndex

SpecClose == InitClose /\ [][NextClose]_vars

\* REST requests through fetch2, the throttle and fetch.
NextRest ==
    \/ \E r \in ReqIds, cost \in Costs : Fetch2(r, cost)
    \/ ThrottleRelease
    \/ ThrottleRefill
    \/ \E r \in ReqIds : Fetch2Resume(r)
    \/ \E r \in ReqIds : FetchReturns(r)
    \/ \E r \in ReqIds, x \in Raised : FetchRaises(r, x)

InitRest == InitAll /\ orderbooks = Symbols /\ hasCacheIndex

SpecRest == InitRest /\ [][NextRest]_vars

\* The throttle's loop keeps running and the bucket keeps refilling; a
\* request that was issued ends, by its response or an exception, at the
\* latest when its timeout runs out.
FetchEnds(r) == FetchReturns(r) \/ \E x \in Raised : FetchRaises(r, x)

FairSpecRest ==
    /\ SpecRest
    /\ WF_vars(ThrottleRelease)
    /\ WF_vars(ThrottleRefill)
    /\ \A r \in ReqIds : WF_vars(FetchEnds(r))

\* The order books made from every raw order book.
NextBook ==
    \/ ParseOrderBookCall
    \/ FetchL2OrderBookCall

InitBook ==
    /\ InitBase
    /\ orderbooks = Symbols /\ hasCacheIndex /\ ownSession /\ ~enableRateLimit
    /\ raw \in [bids : SeqsUpTo(RawLevels, MaxLevels),
                asks : SeqsUpTo(RawLevels, MaxLevels)]

SpecBook == InitBook /\ [][NextBook]_vars

\* Callers of load_markets, with and without reload, and the helper tasks.
NextMarkets ==
    \/ \E k \in CallIds, reload \in BOOLEAN : LoadMarkets(k, reload)
    \/ \E t \in 1..Len(loads) : HelperStarts(t)
    \/ \E t \in 1..Len(loads), ok \in BOOLEAN : HelperEnds(t, ok)
    \/ \E k \in CallIds : LoadMarketsResumes(k)

InitMarkets ==
    InitAll /\ orderbooks = Symbols /\ hasCacheIndex /\ ownSession /\ ~enableRateLimit

SpecMarkets == InitMarkets /\ [][NextMarkets]_vars

\* Snapshot fetches through fetch_rest_order_book_safe.
NextSafe ==
    \/ \E s \in SafeIds : SafeStart(s)
    \/ \E s \in SafeIds : SafeFetchReturns(s)
    \/ \E s \in SafeIds, e \in FetchErrors : SafeFetchRaises(s, e)

SpecSafe == InitMarkets /\ [][NextSafe]_vars

\* ================================================================ claims

TasksOf(c, k) == {i \in 1..Len(tasks) : tasks[i].conn = c /\ tasks[i].key = k}

\* C1: on one connection the subscribe message of a subscribe key goes out
\* at most once, and exactly once as soon as the key is registered, its call
\* carried a message, no send failed and no callback or send task of the
\* key is still in flight.
C1_SubscribeSentOnce ==
    \A c \in ConnIds, k \in SubHashes :
        /\ conns[c].sent[k] <= 1
        /\ (/\ k \in conns[c].subs
            /\ conns[c].outc[k] = "none"
            /\ TasksOf(c, k) = {}) => conns[c].sent[k] = 1

\* Two calls with key k1 and different hashes were made on connection 1
\* (before or after its open) and the message went out.
C1_Witness ==
    /\ Len(conns) >= 1
    /\ conns[1].subs = {"k1"}
    /\ conns[1].futs["h1"] # NoFuture
    /\ conns[1].futs["h2"] # NoFuture
    /\ conns[1].sent["k1"] = 1

\* The step in which the send of task i ends in a failure.
SendFailedStep(i) ==
    /\ tasks[i].phase = "send"
    /\ tasks' = RemoveAt(tasks, i)
    /\ conns'[tasks[i].conn].sent = conns[tasks[i].conn].sent

\* C2: when the send of the subscribe message fails, with any failure, the
\* subscription key is removed from the connection's subscription set and
\* the Future of the call does not stay pending.
C2_SendFailureUndone ==
    [][\A i \in 1..Len(tasks) :
          SendFailedStep(i) =>
              /\ tasks[i].key \notin conns'[tasks[i].conn].subs
              /\ futures'[tasks[i].fut].st # "pending"]_vars

\* C3: every invocation of load_order_book that is suspended on a snapshot
\* fetch returns, whatever the fetches and delta applications do.
C3_LoadOrderBookTerminates ==
    \A p \in LobIds : (lob[p].pc = "fetch") ~> (lob[p].pc = "done")

\* The step in which invocation p gives up after maxRetries snapshots
\* without a join point.
ExhaustedStep(p) ==
    /\ lob[p].pc = "fetch"
    /\ lob'[p].pc = "done"
    /\ lob'[p].res \in {"exhausted", "KeyError"}

RECURSIVE Above(_, _)
Above(deltas, n) ==
    IF deltas = <<>> THEN <<>>
    ELSE IF Head(deltas) > n THEN <<Head(deltas)>> \o Above(Tail(deltas), n)
    ELSE Above(Tail(deltas), n)

\* C5: with an adapter's get_cache_index, for every snapshot nonce n inside
\* the cached range the join point is the first cached delta above n, and
\* the book load_order_book resolves with is the snapshot plus exactly the
\* cached deltas above n, in order, its nonce that of the last cached delta.
C5_JoinInsideCache ==
    /\ hasCacheIndex =>
        \A n \in SnapshotNonces :
            (cache # <<>> /\ cache[1] <= n /\ n < cache[Len(cache)]) =>
                LET index == GetCacheIndex(n, cache)
                    b == JoinedBook(n, cache, index, Len(CacheFrom(cache, index)))
                IN /\ index >= 0
                   /\ cache[index + 1] > n
                   /\ \A j \in 1..index : cache[j] <= n
                   /\ b.base = n
                   /\ b.applied = Above(cache, n)
                   /\ b.nonce = cache[Len(cache)]
    /\ \A p \in {1} :
          (lob[p].res = "resolved" /\ book.applied # <<>>) =>
              /\ book.nonce = book.applied[Len(book.applied)]
              /\ \A j \in 1..Len(book.applied) : book.applied[j] = book.base + j

\* The snapshot of nonce 103 joined the cache [101..105]: the deltas 104 and
\* 105 were applied, the book's nonce is 105 (for FirstNonce = 101).
C5_Witness ==
    /\ lob[1].res = "resolved"
    /\ book = [nonce |-> FirstNonce + 4, base |-> FirstNonce + 2,
               applied |-> <<FirstNonce + 3, FirstNonce + 4>>]
    /\ nextNonce = FirstNonce + 5
    /\ cache = <<>>

\* C6: at most one load_order_book invocation for the symbol is in progress.
C6_NoOverlap ==
    Cardinality({p \in LobIds : lob[p].pc = "fetch"}) <= 1

\* The step in which close() returns.
CloseReturns == close.pc # "returned" /\ close'.pc = "returned"

\* C7 as stated: when close() returns every close() it started has
\* finished, the registry is empty and the session is released.
C7_CloseLeavesRegistryEmpty ==
    [][CloseReturns =>
          /\ close'.pending = {}
          /\ Registered' = {}
          /\ session' = "none"]_vars

\* C7 amended: when close() returns every close() it started has finished
\* (also those that raised), none of those connections is registered and
\* the session is released; the registry was emptied, and the session
\* released, only after all those closes had finished.
C7_CloseWaitsForAll ==
    [][/\ CloseReturns =>
             /\ close'.pending = {}
             /\ Registered' \cap close'.set = {}
             /\ session' = "none"
       /\ (close.pc = "wait" /\ close'.pc # "wait") =>
             /\ close.pending = {}
             /\ Registered' = {}
       /\ (close.pc # "idle" /\ session # "none" /\ session' = "none") =>
             close.pending = {}]_vars

\* close() returned after closing two connections, one of which raised.
C7_Witness ==
    /\ close.pc = "returned"
    /\ Cardinality(close.set) = 2
    /\ Cardinality(close.failed) = 1
    /\ session = "none"

\* C8: a registered Connection is never replaced by a client() or watch()
\* call: the registry entry of a URL changes only from absent to a new
\* Connection of that URL or from a Connection to absent.
C8_OneConnectionPerUrl ==
    [][\A u \in Urls :
          /\ clients[u] # NoConn => clients'[u] \in {clients[u], NoConn}
          /\ clients'[u] # NoConn => conns'[clients'[u]].url = u]_vars

\* Two watch calls for u1 created two Futures on the one Connection of u1.
C8_Witness ==
    /\ Len(conns) = 1
    /\ clients["u1"] = 1
    /\ conns[1].futs["h1"] # NoFuture
    /\ conns[1].futs["h2"] # NoFuture

\* C9: a Connection that failed is not in the registry.
C9_FailedNotRegistered ==
    \A c \in ConnIds : conns[c].error => clients[conns[c].url] # c

\* After the failure of connection 1 a watch made connection 2 for the same
\* URL, which is connecting.
C9_Witness ==
    /\ Len(conns) = 2
    /\ conns[1].error
    /\ conns[2].url = conns[1].url
    /\ clients[conns[1].url] = 2
    /\ conns[2].st = "connecting"

\* Future f is pending on a connection that failed.
PendingOnFailed(f) ==
    /\ f <= Len(futures)
    /\ futures[f].st = "pending"
    /\ \E c \in ConnIds :
          /\ \E h \in Hashes : conns[c].futs[h] = f
          /\ conns[c].error \/ \E k \in SubHashes : conns[c].outc[k] = "failed"

\* C10: a Future pending on a connection that failed is eventually rejected.
C10_PendingEventuallyRejected ==
    \A f \in 1..MaxFut :
        PendingOnFailed(f) ~> (f <= Len(futures) /\ futures[f].st # "pending")

\* C11: a watch without subscribe key for a hash that has a Future on the
\* registered connection returns that Future and changes nothing: registry,
\* connection (subscription set, connect state), Futures, scheduled sends
\* and session stay as they are.
C11_EarlyReturnChangesNothing ==
    \A u \in RouterUrls, h \in Hashes, msg \in BOOLEAN :
        (ClientExists(u) /\ conns[clients[u]].futs[h] # NoFuture) =>
            /\ WatchReturn(u, h, None) = conns[clients[u]].futs[h]
            /\ ClientRegistry(u) = clients
            /\ WatchConns(u, h, None) = conns
            /\ WatchFutures(u, h, None) = futures
            /\ WatchTasks(u, h, msg, None) = tasks
            /\ WatchSession(u, h, None) = session

\* The open connection of u1 has a Future for h1 and no subscription under
\* the absent key: a watch that went on would add one.
C11_Witness ==
    /\ clients["u1"] # NoConn
    /\ conns[clients["u1"]].st = "open"
    /\ conns[clients["u1"]].futs["h1"] # NoFuture
    /\ None \notin conns[clients["u1"]].subs

\* The step in which send_message of task i gets to `await client.send`.
EntersSend(i) ==
    /\ Len(tasks') = Len(tasks)
    /\ tasks[i].phase # "send"
    /\ tasks'[i].phase = "send"

\* The step in which a subscribe message goes out on connection c.
MessageSent(c) == conns'[c].sent # conns[c].sent

CompletedStays ==
    \A f \in 1..Len(futures) :
        futures[f].st # "pending" => futures'[f] = futures[f]

\* Completing any Future a second time, in either way, changes nothing, and
\* resolve / reject of a hash that has no Future changes nothing.
SecondCompletionDropped ==
    /\ \A f \in 1..Len(futures), e \in FetchErrors :
          LET res == FutureResolve(futures, f)
              rej == FutureReject(futures, f, "NetworkError")
          IN /\ FutureResolve(res, f) = res
             /\ FutureReject(res, f, e) = res
             /\ FutureResolve(rej, f) = rej
             /\ FutureReject(rej, f, e) = rej
    /\ \A c \in ConnIds, h \in Hashes, e \in FetchErrors :
          (conns[c].futs[h] = NoFuture \/ ~FutureAlive(conns[c], h)) =>
              /\ ClientResolveFutures(futures, conns[c], {h}) = futures
              /\ ClientRejectFutures(futures, conns[c], {h}, e) = futures

NoBookStep == Symbol \notin orderbooks /\ lob'[1] # lob[1]

\* The Future of the feed on connection c is rejected by the step and
\* forgotten, with the error of the missing entry if it was pending.
FeedRejected(c) ==
    LET f == conns[c].futs[OrderBookHash] IN
    /\ conns'[c].futs[OrderBookHash] = NoFuture
    /\ f # NoFuture => futures'[f].st # "pending"
    /\ (f # NoFuture /\ futures[f].st = "pending") =>
           futures'[f] = [st |-> "rejected", err |-> "ExchangeError: not initiated"]

\* C14: for a symbol without OrderBook entry load_order_book rejects the
\* waiters of the message hash and returns: it never waits for a snapshot,
\* never counts a try, and leaves the registry, the order-book store, the
\* book and the cache as they were.
C14_NoOrderBookEntry ==
    /\ [](Symbol \notin orderbooks =>
             /\ lob[1].pc # "fetch"
             /\ lob[1].tries = 0
             /\ lob[1].res \in {"none", "noBook"}
             /\ book = NewOrderBook)
    /\ [][NoBookStep =>
             /\ lob'[1] = DoneLob("noBook")
             /\ \E c \in ConnIds : conns[c].st = "open" /\ FeedRejected(c)
             /\ UNCHANGED <<clients, orderbooks, book, cache>>]_vars

\* load_order_book returned for the missing entry and a waiter holds the
\* rejection.
C14_Witness ==
    /\ Symbol \notin orderbooks
    /\ lob[1].res = "noBook"
    /\ \E f \in 1..Len(futures) :
          futures[f] = [st |-> "rejected", err |-> "ExchangeError: not initiated"]

\* The step in which an adapter operation of load_order_book (slot 1)
\* raises NotSupported: the snapshot fetch itself, or handle_delta while the
\* cached deltas are applied (then a pending waiter gets that error).
NotSupportedStep ==
    /\ lob[1].pc = "fetch"
    /\ \/ LobFetchRaised(1, "NotSupported")
       \/ \E f \in 1..Len(futures) :
             /\ futures[f].st = "pending"
             /\ futures'[f] = [st |-> "rejected", err |-> "NotSupported"]

\* C15: after NotSupported was raised inside load_order_book the invocation
\* is over: it is not suspended on another snapshot fetch.
C15_NotSupportedNotRetried ==
    [][NotSupportedStep => lob'[1].pc = "done"]_vars

\* C16: a waiter that is rejected with an error of the kind of the
\* exhaustion error was rejected by exhaustion: no transport failure, no
\* adapter failure and no missing order-book entry rejects with that kind.
C16_ExhaustionKindDistinct ==
    \A f \in 1..Len(futures) :
        (/\ futures[f].st = "rejected"
         /\ ErrorKind(futures[f].err) = ErrorKind("ExchangeError: nonce is behind cache"))
            => futures[f].err = "ExchangeError: nonce is behind cache"

\* C17: a close() called after a close() that returned starts no close of a
\* connection the earlier call closed; called on what a completed close
\* leaves behind (empty registry, session released) it returns at once,
\* waits for nothing and changes neither registry, connections, Futures
\* nor session.
C17_CloseTwice ==
    [][(close.pc = "returned" /\ CloseCall) =>
          /\ close'.set \cap close.set = {}
          /\ (Registered = {} /\ session = "none") =>
                 /\ close' = [IdleClose EXCEPT !.pc = "returned"]
                 /\ Registered' = {}
                 /\ session' = "none"
                 /\ UNCHANGED <<clients, conns, futures, tasks>>]_vars

\* A first close() closed connections (the close of one of them raised and
\* left it open, unregistered); the second close() has returned.
C17_Witness ==
    /\ close = [IdleClose EXCEPT !.pc = "returned"]
    /\ Registered = {}
    /\ session = "none"
    /\ \E c \in ConnIds : conns[c].st = "open"

Elems(q) == {q[i] : i \in 1..Len(q)}

\* The requests are released in the order they acquired, and those that
\* acquired and are not released yet wait in the queue, oldest first.
ThrottleFifo ==
    /\ Len(released) <= Len(arrived)
    /\ released = SubSeq(arrived, 1, Len(released))
    /\ queue = SubSeq(arrived, Len(released) + 1, Len(arrived))

\* A request that acquired either waits in the queue or was released: the
\* throttle ends no request with an error, and the bucket is never overdrawn.
ThrottleNeverRejects ==
    /\ tokens \in 0..Capacity
    /\ \A r \in ReqIds :
          /\ reqs[r].pc = "throttle" <=> r \in Elems(queue)
          /\ r \in Elems(queue) => reqs[r].res = "none"
          /\ r \in Elems(arrived) => r \in Elems(queue) \cup Elems(released)

\* With rate limiting on, a request that was issued had been released.
HttpAfterGrant ==
    \A r \in ReqIds :
        (enableRateLimit /\ reqs[r].pc \in {"http", "done"}) => r \in Elems(released)

IsTimeout(x) ==
    {"asyncio.TimeoutError", "concurrent.futures.TimeoutError"} \cap Ancestors(x) # {}

IsDnsFailure(x) == x = "gaierror"

IsConnectionFailure(x) == "ClientConnectionError" \in Ancestors(x) /\ ~IsTimeout(x)

IsOtherClientError(x) ==
    "ClientError" \in Ancestors(x) /\ ~IsTimeout(x) /\ ~IsConnectionFailure(x)

\* Every request whose transport failed ended with the error of its kind.
FetchErrorMapped ==
    \A r \in ReqIds :
        (reqs[r].pc = "done" /\ reqs[r].exc # "none") =>
            /\ reqs[r].res \in {"ExchangeNotAvailable", "RequestTimeout", "ExchangeError"}
            /\ IsTimeout(reqs[r].exc) => reqs[r].res = "RequestTimeout"
            /\ (IsDnsFailure(reqs[r].exc) \/ IsConnectionFailure(reqs[r].exc)) =>
                   reqs[r].res = "ExchangeNotAvailable"
            /\ IsOtherClientError(reqs[r].exc) => reqs[r].res = "ExchangeError"

\* C19: fetch ends a failed request with one error: ExchangeNotAvailable
\* for a DNS or connection failure, RequestTimeout for a timeout (also one
\* that the client library reports as a connection-level timeout),
\* ExchangeError for any other client error; and an issued request ends.
C19_FetchErrorKinds ==
    /\ []FetchErrorMapped
    /\ \A r \in ReqIds : (reqs[r].pc = "http") ~> (reqs[r].pc = "done")

\* A request ran into the server's timeout and ended with RequestTimeout,
\* another one could not connect.
C19_Witness ==
    /\ reqs[1] = [pc |-> "done", cost |-> 1, exc |-> "ServerTimeoutError",
                  res |-> "RequestTimeout"]
    /\ reqs[2].exc = "ClientConnectorError"
    /\ reqs[2].res = "ExchangeNotAvailable"

Descending(ls) == \A i \in 1..(Len(ls) - 1) : ls[i][1] >= ls[i + 1][1]

Ascending(ls) == \A i \in 1..(Len(ls) - 1) : ls[i][1] <= ls[i + 1][1]

StrictlyDescending(ls) == \A i \in 1..(Len(ls) - 1) : ls[i][1] > ls[i + 1][1]

StrictlyAscending(ls) == \A i \in 1..(Len(ls) - 1) : ls[i][1] < ls[i + 1][1]

UniquePrices(ls) ==
    \A i, j \in 1..Len(ls) : ls[i][1] = ls[j][1] => i = j

\* C20 as stated: in every order book made by parse_order_book or
\* fetch_l2_order_book the bids are strictly descending and the asks
\* strictly ascending by price.
C20_StrictlySorted ==
    parsed.by # "none" =>
        /\ StrictlyDescending(parsed.bids)
        /\ StrictlyAscending(parsed.asks)

\* C20 amended: both methods give bids descending and asks ascending by
\* price; fetch_l2_order_book gives strict order; parse_order_book keeps
\* every level of the response, so its order is strict exactly when the
\* prices of the side are unique in the response.
C20_Sorted ==
    /\ parsed.by # "none" =>
          /\ Descending(parsed.bids)
          /\ Ascending(parsed.asks)
    /\ parsed.by = "fetch_l2_order_book" =>
          /\ StrictlyDescending(parsed.bids)
          /\ StrictlyAscending(parsed.asks)
    /\ parsed.by = "parse_order_book" =>
          /\ Len(parsed.bids) = Len(raw.bids)
          /\ Len(parsed.asks) = Len(raw.asks)
          /\ StrictlyDescending(parsed.bids) <=> UniquePrices(raw.bids)
          /\ StrictlyAscending(parsed.asks) <=> UniquePrices(raw.asks)

\* parse_order_book sorted a response whose bids hold two levels of one
\* price.
C20_Witness ==
    /\ parsed.by = "parse_order_book"
    /\ raw.bids = << <<2, 1, "id">>, <<2, 1, "id">> >>
    /\ raw.asks = << <<3, 1, "id">>, <<1, 1, "id">> >>
    /\ parsed.bids = << <<2, 1>>, <<2, 1>> >>
    /\ parsed.asks = << <<1, 1>>, <<3, 1>> >>

\* The step in which load_order_book (slot p) resolves the waiters.
ResolvedStep(p) == lob[p].pc = "fetch" /\ lob'[p] = DoneLob("resolved")

\* The step joined the snapshot of nonce n: the book is that snapshot plus
\* every cached delta from the join index on, each once and in cache order,
\* and the cache is empty.
JoinedAt(n) ==
    LET index == GetCacheIndex(n, cache) IN
    /\ index >= 0
    /\ book'.base = n
    /\ book'.applied = SubSeq(cache, index + 1, Len(cache))
    /\ book'.nonce = cache[Len(cache)]
    /\ cache' = <<>>

\* The Future of the feed on the connection of slot p is resolved and
\* forgotten by the step.
FeedResolved(p) ==
    LET c == lob[p].conn
        f == conns[c].futs[OrderBookHash]
    IN /\ conns'[c].futs[OrderBookHash] = NoFuture
       /\ (f # NoFuture /\ futures[f].st = "pending") => futures'[f].st = "resolved"

\* C21: when load_order_book resolves the waiters, it has in that same run
\* reset the book to a snapshot that joins the cache, applied every cached
\* delta from the join index on, once and in order, and cleared the cache;
\* and a run that resets the book goes through to the resolution unless
\* handle_delta raised, in which case the cache is kept and the invocation
\* stays in progress.
C21_JoinSequence ==
    [][\A p \in {1} :
          /\ ResolvedStep(p) =>
                /\ \E n \in SnapshotNonces : JoinedAt(n)
                /\ FeedResolved(p)
          /\ (lob[p].pc = "fetch" /\ book' # book) =>
                \/ ResolvedStep(p)
                \/ lob'[p].pc = "fetch" /\ cache' = cache]_vars

\* The snapshot of the first delta's nonce joined a cache of three deltas:
\* the two later ones were applied, the cache is empty, a waiter is resolved.
C21_Witness ==
    /\ lob[1].res = "resolved"
    /\ cache = <<>>
    /\ book = [nonce |-> FirstNonce + 2, base |-> FirstNonce,
               applied |-> <<FirstNonce + 1, FirstNonce + 2>>]
    /\ \E f \in 1..Len(futures) : futures[f].st = "resolved"

\* The step in which an attempt of slot p ends without join point: the try
\* is counted and the next snapshot is fetched, or the invocation gives up.
NoJoinStep(p) ==
    /\ lob[p].pc = "fetch"
    /\ \/ lob'[p].pc = "fetch" /\ lob'[p].tries = lob[p].tries + 1
       \/ ExhaustedStep(p)

\* C22: an invocation of load_order_book that waits for a snapshot has made
\* fewer than maxRetries attempts before, so it fetches at most maxRetries
\* snapshots; an attempt without join point (the index of its own snapshot
\* is negative) changes neither the stored book nor the cache.
C22_AtMostMaxRetries ==
    /\ [](\A p \in {1} : lob[p].pc = "fetch" => lob[p].tries + 1 <= maxRetries)
    /\ [][\A p \in {1} :
             NoJoinStep(p) =>
                 /\ \E n \in SnapshotNonces : GetCacheIndex(n, cache) < 0
                 /\ book' = book
                 /\ cache' = cache]_vars

\* Two snapshots did not join the cached deltas; the third is being fetched
\* and cache and book are as they were.
C22_Witness ==
    /\ lob[1].pc = "fetch"
    /\ lob[1].tries = maxRetries - 1
    /\ Len(cache) >= 2
    /\ book = NewOrderBook

\* The step drops cached deltas: the cache is not what it was, possibly
\* with more deltas appended.
CacheDrops ==
    ~(/\ Len(cache') >= Len(cache)
      /\ SubSeq(cache', 1, Len(cache)) = cache)

Pushed == FirstNonce..(nextNonce - 1)

\* C24: no delta is lost, whenever it arrived (before load_order_book was
\* called, while it was suspended on a snapshot fetch, or after it
\* returned): every delta pushed so far is held by the snapshot the book
\* was last reset to, or was applied to the book after that reset, or is
\* still in the cache.
C24_NoDeltaLost ==
    \A d \in Pushed :
        \/ d <= book.base
        \/ d \in Elems(book.applied)
        \/ d \in Elems(cache)

\* Four deltas were pushed; the snapshot of the second one's nonce joined
\* them: the third and fourth were applied and the cache is empty.
C24_Witness ==
    /\ lob[1].res = "resolved"
    /\ nextNonce = FirstNonce + 4
    /\ book.base = FirstNonce + 1
    /\ book.applied = <<FirstNonce + 2, FirstNonce + 3>>
    /\ cache = <<>>

\* C25: every connection that was created and is not closed (nor closing
\* after a failure of its transport) is the registered connection of its
\* URL, so that close() finds it.
C25_OpenIsRegistered ==
    \A c \in ConnIds :
        conns[c].st \in {"new", "connecting", "open"} => clients[conns[c].url] = c

\* The step in which connection c closes or fails.
CloseOrErrorEvent(c) ==
    \/ conns[c].st # "closed" /\ conns'[c].st = "closed"
    \/ ~conns[c].error /\ conns'[c].error

\* C26: the close or the failure of a connection leaves every other
\* registered connection registered.
C26_OnlyOwnEntryRemoved ==
    [][\A c \in ConnIds :
          CloseOrErrorEvent(c) =>
              \A u \in Urls :
                  (clients[u] # NoConn /\ clients[u] # c) => clients'[u] = clients[u]]_vars

\* C27: a watch without subscribe key that carries a message, for a hash
\* that has no Future on the registered connection, schedules the callback
\* that sends its message, whatever was watched on the connection before.
C27_UnkeyedWatchSends ==
    \A u \in RouterUrls, h \in Hashes :
        (ClientExists(u) /\ conns[clients[u]].futs[h] = NoFuture) =>
            /\ WatchSchedules(u, h, None)
            /\ WatchTasks(u, h, TRUE, None) =
                   Append(tasks, [conn |-> clients[u], key |-> None,
                                  fut |-> WatchReturn(u, h, None),
                                  msg |-> TRUE, phase |-> "cb"])

\* The load tasks that are started and not finished.
InFlight == {t \in 1..Len(loads) : ~LoadDone(t)}

\* C28: load_markets calls that overlap (without reload, or with reload
\* while a load is in flight) start the market load once: no load task is
\* started while another one is in flight, so at most one is in flight.
C28_OneLoadInFlight == Cardinality(InFlight) <= 1

\* Caller k's await ends with the failure of its task in this step.
ReceivesFailure(k) ==
    /\ calls[k].pc # "done" \/ calls'[k] # calls[k]
    /\ calls'[k].pc = "done"
    /\ calls'[k].res = "failed"

\* C29: a caller whose await ends gets the outcome of the task it awaited,
\* so every caller awaiting a failed load receives the failure; the step
\* in which the failure is received clears the cached load and the
\* reloading flag; and a call made while no load is cached starts a new
\* task, never awaiting a finished one.
C29_FailedLoadCleared ==
    /\ [](\A k \in CallIds :
            calls[k].pc = "done" =>
                /\ LoadDone(calls[k].task)
                /\ calls[k].res = loads[calls[k].task].st)
    /\ [][\A k \in CallIds :
            ReceivesFailure(k) => marketsLoading' = NoLoad /\ ~reloadingMarkets']_vars
    /\ [][\A k \in CallIds :
            (marketsLoading = NoLoad /\ calls'[k] # calls[k] /\ calls[k].pc # "await") =>
                /\ Len(loads') = Len(loads) + 1
                /\ calls'[k].task = Len(loads')
                /\ calls'[k].pc = "await"
                /\ marketsLoading' = Len(loads')]_vars

\* Two callers received the failure of the first load and the cached load
\* was cleared; a later call awaits a new load.
C29_Witness ==
    /\ Len(loads) = 2
    /\ loads[1].st = "failed"
    /\ calls[1].res = "failed" /\ calls[1].task = 1
    /\ calls[2].res = "failed" /\ calls[2].task = 1
    /\ calls[3].pc = "await" /\ calls[3].task = 2
    /\ marketsLoading = 2

\* C30: fetch_rest_order_book_safe makes at most maxRetries calls of
\* fetch_order_book; a call that succeeds is the last one and its result is
\* returned; an error is raised only after maxRetries failed calls, and it
\* is the error of the last call.
C30_SafeRetries ==
    \A s \in SafeIds :
        LET log == safe[s].log IN
        /\ Len(log) <= maxRetries
        /\ \A n \in 1..Len(log) : log[n] = "ok" => n = Len(log)
        /\ (Len(log) > 0 /\ log[Len(log)] = "ok") =>
               safe[s].pc = "done" /\ safe[s].res = "ok"
        /\ safe[s].pc = "done" =>
               /\ Len(log) > 0
               /\ safe[s].res = log[Len(log)]
               /\ safe[s].res # "ok" =>
                      /\ Len(log) = maxRetries
                      /\ \A n \in 1..Len(log) : log[n] # "ok"
        /\ safe[s].pc = "fetch" =>
               /\ Len(log) < maxRetries
               /\ \A n \in 1..Len(log) : log[n] # "ok"

\* One invocation raised the last of three different-ending failures, the
\* other returned the result of its second call.
C30_Witness ==
    /\ safe[1].pc = "done"
    /\ safe[1].log = <<"NotSupported", "NotSupported", "RequestTimeout">>
    /\ safe[1].res = "RequestTimeout"
    /\ safe[2].pc = "done"
    /\ safe[2].log = <<"RequestTimeout", "ok">>
    /\ safe[2].res = "ok"

====
